---------------------------- MODULE Spec2Model ----------------------------
(***************************************************************************)
(* Model of src/src/raster.rs (crate pix): Region, RasterIter, Raster and  *)
(* RasterBuilder.                                                          *)
(*                                                                         *)
(* Machine integers.  TLC's integers are 32-bit signed, so u32 cannot be   *)
(* held at full width.  The model keeps every wrap, cast and comparison of *)
(* the source but scales the word: u32 is WordBits bits unsigned, i32 is   *)
(* WordBits bits two's complement; i64 and usize (64 bit) are wide enough  *)
(* never to overflow on values derived from one or two u32/i32 and are     *)
(* unbounded integers.  A u32/i32 operation that overflows panics in a     *)
(* debug build (overflow checks on) and wraps in a release build; the      *)
(* build is chosen in Init and never changes.  debug_assert! fires only in *)
(* the debug build.                                                        *)
(***************************************************************************)
EXTENDS Integers, Sequences, FiniteSets, TLC

VARIABLES build,                    \* "debug" or "release"
          regA, regB, resAB, resBA, \* Region algebra: operands and results
          raster,                   \* the Raster
          status,                   \* "none": not built, "ok", "panic"
          last,                     \* the last call and its arguments
          ops,                      \* calls made on the raster so far
          iter,                     \* the RasterIter borrowing the raster
          trace                     \* what each next() of iter returned, or
                                    \* the set_pixel calls that returned

vars == <<build, regA, regB, resAB, resBA, raster, status, last, ops, iter,
          trace>>

regionVars == <<regA, regB, resAB, resBA>>
iterVars == <<iter, trace>>

(***************************************************************************)
(* Word arithmetic                                                         *)
(***************************************************************************)
WordBits == 5

U32Mod == 2 ^ WordBits
U32Max == U32Mod - 1
I32Max == 2 ^ (WordBits - 1) - 1
I32Min == -(2 ^ (WordBits - 1))

Builds == {"debug", "release"}

Min(a, b) == IF a <= b THEN a ELSE b
Max(a, b) == IF a >= b THEN a ELSE b

\* `v as u32` for an i32 (or wider) v: reduction modulo 2^w.
AsU32(v) == v % U32Mod

\* `v as i32`: two's complement reinterpretation.
AsI32(v) == LET m == v % U32Mod IN IF m > I32Max THEN m - U32Mod ELSE m

\* A u32 result: [panic, val].  Overflow panics in debug, wraps in release.
U32Op(v, bld) ==
    IF v >= 0 /\ v <= U32Max
    THEN [panic |-> FALSE, val |-> v]
    ELSE IF bld = "debug"
         THEN [panic |-> TRUE, val |-> 0]
         ELSE [panic |-> FALSE, val |-> AsU32(v)]

\* An i32 result, likewise.
I32Op(v, bld) ==
    IF v >= I32Min /\ v <= I32Max
    THEN [panic |-> FALSE, val |-> v]
    ELSE IF bld = "debug"
         THEN [panic |-> TRUE, val |-> 0]
         ELSE [panic |-> FALSE, val |-> AsI32(v)]

(***************************************************************************)
(* Region                                                                  *)
(***************************************************************************)
RegionNew(x, y, width, height) ==
    [x |-> x, y |-> y, width |-> width, height |-> height]

\* Region::right: the sum is taken in i64; it is returned when it is
\* strictly below i32::MAX, otherwise x is returned.
right(r) ==
    LET x == r.x + r.width
    IN  IF x < I32Max THEN x ELSE r.x

\* Region::bottom
bottom(r) ==
    LET y == r.y + r.height
    IN  IF y < I32Max THEN y ELSE r.y

NoRegion == RegionNew(0, 0, 0, 0)

\* A bug a maintainer could make: x0 taken from self alone.
intersectionLeftOnly(a, b, bld) ==
    LET x0 == a.x
        x1 == Min(right(a), right(b))
        dx == I32Op(x1 - x0, bld)
        y0 == Max(a.y, b.y)
        y1 == Min(bottom(a), bottom(b))
        dy == I32Op(y1 - y0, bld)
    IN  IF dx.panic \/ dy.panic
        THEN [panic |-> TRUE, region |-> NoRegion]
        ELSE [panic |-> FALSE,
              region |-> RegionNew(x0, y0, AsU32(dx.val), AsU32(dy.val))]

\* Region::intersection.  x1 - x0 and y1 - y0 are i32 subtractions, then
\* cast `as u32`.
intersection(a, b, bld) ==
    LET x0 == Max(a.x, b.x)
        x1 == Min(right(a), right(b))
        dx == I32Op(x1 - x0, bld)
        y0 == Max(a.y, b.y)
        y1 == Min(bottom(a), bottom(b))
        dy == I32Op(y1 - y0, bld)
    IN  IF dx.panic \/ dy.panic
        THEN [panic |-> TRUE, region |-> NoRegion]
        ELSE [panic |-> FALSE,
              region |-> RegionNew(x0, y0, AsU32(dx.val), AsU32(dy.val))]

\* Inputs of the Region algebra: origins and extents at and around the
\* edges of their types.
RegXs == {I32Min, -1, 0, 1, I32Max}
RegYs == {-1, 0, 2}
RegWs == {0, 1, 5, U32Max}
RegHs == {0, 5, U32Max}
Regions == {RegionNew(x, y, w, h) : x \in RegXs, y \in RegYs,
                                    w \in RegWs, h \in RegHs}

(***************************************************************************)
(* Pixel formats.  A pixel is the tuple of its channel values.  The        *)
(* formats are those of the tests of raster.rs: one or two channels of one *)
(* or two bytes each.                                                      *)
(***************************************************************************)
Formats == {"Gray8", "GrayAlpha8", "Gray16", "GrayAlpha16"}

Channels(f) == IF f \in {"Gray8", "Gray16"} THEN 1 ELSE 2

ChanBytes(f) == IF f \in {"Gray8", "GrayAlpha8"} THEN 1 ELSE 2

\* std::mem::size_of::<P>()
SizeOf(f) == Channels(f) * ChanBytes(f)

\* P::default(): every channel zero.
Default(f) == [i \in 1..Channels(f) |-> 0]

\* Channel conversion between Ch8 and Ch16: 0xA2 -> 0xA2A2, 0x9085 -> 0x90.
ConvertChan(sf, df, c) ==
    IF ChanBytes(sf) = ChanBytes(df) THEN c
    ELSE IF ChanBytes(sf) = 1 THEN c * 257
    ELSE c \div 256

\* p.convert(), for formats with the same channels.
Convert(sf, df, p) == [i \in DOMAIN p |-> ConvertChan(sf, df, p[i])]

(***************************************************************************)
(* Raster: [fmt, width, height, pixels]; pixels is the boxed slice.        *)
(***************************************************************************)
MkRaster(f, w, h, px) == [fmt |-> f, width |-> w, height |-> h, pixels |-> px]

NoRaster == MkRaster("Gray8", 0, 0, <<>>)

\* Raster::region
region(r) == RegionNew(0, 0, r.width, r.height)

\* Raster::as_slice_row and as_slice_row_mut: the bounds [s, t) of row y in
\* the buffer.  debug_assert!(y < height); s = (y * width) as usize with the
\* product taken in u32; t = s + width in usize; the slice s..t panics when
\* t exceeds the buffer's length.
as_slice_row(r, y, bld) ==
    LET Row(m) ==
            IF bld = "debug" /\ ~(y < r.height)
            THEN [panic |-> TRUE, s |-> 0, t |-> 0]
            ELSE IF m.panic \/ m.val + r.width > Len(r.pixels)
            THEN [panic |-> TRUE, s |-> 0, t |-> 0]
            ELSE [panic |-> FALSE, s |-> m.val, t |-> m.val + r.width]
    IN  Row(U32Op(y * r.width, bld))

\* Raster::pixel: row[x] panics when x is not below the row's length.
pixel(r, x, y, bld) ==
    LET At(row) ==
            IF row.panic \/ x >= row.t - row.s
            THEN [panic |-> TRUE, val |-> <<>>, index |-> 0]
            ELSE [panic |-> FALSE, val |-> r.pixels[row.s + x + 1],
                  index |-> row.s + x]
    IN  At(as_slice_row(r, y, bld))

\* Raster::set_pixel with a value p of format sf: [panic, raster].
set_pixel(r, x, y, sf, p, bld) ==
    LET At(row) ==
            IF row.panic \/ x >= row.t - row.s
            THEN [panic |-> TRUE, raster |-> r]
            ELSE [panic |-> FALSE,
                  raster |-> [r EXCEPT !.pixels[row.s + x + 1] =
                                           Convert(sf, r.fmt, p)]]
    IN  At(as_slice_row(r, y, bld))

\* Raster::clear
clear(r) == [r EXCEPT !.pixels = [i \in DOMAIN r.pixels |-> Default(r.fmt)]]

(***************************************************************************)
(* RasterIter: [left, right, bottom, x, y], borrowing a raster.            *)
(***************************************************************************)
\* u32::try_from(v).unwrap_or(0) for an i32 v
TryFromOr0(v) == IF v >= 0 THEN v ELSE 0

\* RasterIter::new
RasterIterNew(reg) ==
    [left |-> TryFromOr0(reg.x), right |-> TryFromOr0(right(reg)),
     bottom |-> TryFromOr0(bottom(reg)),
     x |-> TryFromOr0(reg.x), y |-> TryFromOr0(reg.y)]

NoIter == RasterIterNew(NoRegion)

\* The tail of RasterIter::next: read the pixel at the cursor, advance x.
IterRead(r, it, bld) ==
    LET Got(p, nx) ==
            IF p.panic \/ nx.panic
            THEN [panic |-> TRUE, some |-> FALSE, val |-> <<>>, it |-> it]
            ELSE [panic |-> FALSE, some |-> TRUE, val |-> p.val,
                  it |-> [it EXCEPT !.x = nx.val]]
    IN  Got(pixel(r, it.x, it.y, bld), U32Op(it.x + 1, bld))

\* The head of RasterIter::next: at the end of a row, x = left and y += 1,
\* and the iterator ends when y >= bottom.  [panic, end, it].
IterWrap(it, bld) ==
    LET Moved(ny) ==
            IF ny.panic
            THEN [panic |-> TRUE, end |-> FALSE,
                  it |-> [it EXCEPT !.x = it.left]]
            ELSE [panic |-> FALSE, end |-> ny.val >= it.bottom,
                  it |-> [it EXCEPT !.x = it.left, !.y = ny.val]]
    IN  IF it.x >= it.right
        THEN Moved(U32Op(it.y + 1, bld))
        ELSE [panic |-> FALSE, end |-> FALSE, it |-> it]

\* RasterIter::next: [panic, some, val, it].
RasterIterNext(r, it, bld) ==
    LET After(w) ==
            IF w.panic \/ w.end
            THEN [panic |-> w.panic, some |-> FALSE, val |-> <<>>,
                  it |-> w.it]
            ELSE IterRead(r, w.it, bld)
    IN  After(IterWrap(it, bld))

(***************************************************************************)
(* The source of set_region: an iterator of pixels of format fmt.  It is   *)
(* either an owned sequence (kind "seq": items, position pos) or a         *)
(* RasterIter over a raster (kind "iter").                                 *)
(***************************************************************************)
SeqSource(f, items) ==
    [kind |-> "seq", fmt |-> f, items |-> items, pos |-> 0,
     raster |-> NoRaster, it |-> NoIter]

IterSource(r, reg) ==
    [kind |-> "iter", fmt |-> r.fmt, items |-> <<>>, pos |-> 0,
     raster |-> r, it |-> RasterIterNew(reg)]

\* it.next() on a source: [panic, some, val, src]; pos counts the pixels
\* handed out.
SourceNext(src, bld) ==
    LET Got(n) ==
            [panic |-> n.panic, some |-> n.some, val |-> n.val,
             src |-> [src EXCEPT !.it = n.it,
                                 !.pos = IF n.some THEN src.pos + 1
                                         ELSE src.pos]]
    IN  IF src.kind = "seq"
        THEN IF src.pos < Len(src.items)
             THEN [panic |-> FALSE, some |-> TRUE,
                   val |-> src.items[src.pos + 1],
                   src |-> [src EXCEPT !.pos = src.pos + 1]]
             ELSE [panic |-> FALSE, some |-> FALSE, val |-> <<>>,
                   src |-> src]
        ELSE Got(RasterIterNext(src.raster, src.it, bld))

\* The loops of Raster::set_region from cell k of the rectangle
\* [x0, x1) x [y0, y1), row-major: the row slice is taken at the start of
\* each row, then each cell takes one it.next().
RECURSIVE SetRegionLoop(_, _, _, _, _, _, _, _)
SetRegionLoop(r, src, k, x0, x1, y0, y1, bld) ==
    LET cw == x1 - x0
        Cell(row, n) ==
            IF row.panic
            THEN [panic |-> TRUE, raster |-> r, src |-> src]
            ELSE IF n.panic
            THEN [panic |-> TRUE, raster |-> r, src |-> n.src]
            ELSE SetRegionLoop(
                     IF n.some
                     THEN [r EXCEPT !.pixels[row.s + x0 + (k % cw) + 1] =
                                        Convert(src.fmt, r.fmt, n.val)]
                     ELSE r,
                     n.src, k + 1, x0, x1, y0, y1, bld)
    IN  IF k >= cw * (y1 - y0)
        THEN [panic |-> FALSE, raster |-> r, src |-> src]
        ELSE \* this cell, on the evaluated row slice and source pixel
             CHOOSE res \in {Cell(row, n) :
                                row \in {as_slice_row(r, y0 + (k \div cw), bld)},
                                n \in {SourceNext(src, bld)}} : TRUE

\* Raster::set_region: [panic, raster, src].
set_region(r, reg, src, bld) ==
    LET x0 == IF reg.x >= 0 THEN reg.x ELSE r.width
        y0 == IF reg.y >= 0 THEN reg.y ELSE r.height
        Clipped(sx, sy) ==
            IF sx.panic \/ sy.panic
            THEN [panic |-> TRUE, raster |-> r, src |-> src]
            ELSE IF y0 < Min(r.height, sy.val) /\ x0 < Min(r.width, sx.val)
            THEN SetRegionLoop(r, src, 0, x0, Min(r.width, sx.val),
                               y0, Min(r.height, sy.val), bld)
            ELSE [panic |-> FALSE, raster |-> r, src |-> src]
    IN  Clipped(U32Op(x0 + reg.width, bld), U32Op(y0 + reg.height, bld))

(***************************************************************************)
(* RasterBuilder: each with_* returns [panic, raster].                     *)
(***************************************************************************)
BuildPanic == [panic |-> TRUE, raster |-> NoRaster]

\* RasterBuilder::with_color: len = (width * height) as usize, the product
\* taken in u32.
with_color(f, w, h, clr, bld) ==
    LET Make(len) ==
            IF len.panic THEN BuildPanic
            ELSE [panic |-> FALSE,
                  raster |-> MkRaster(f, w, h, [i \in 1..len.val |-> clr])]
    IN  Make(U32Op(w * h, bld))

\* RasterBuilder::with_clear
with_clear(f, w, h, bld) == with_color(f, w, h, Default(f), bld)

\* RasterBuilder::with_pixels: assert_eq!(len, pixels.len())
with_pixels(f, w, h, px, bld) ==
    LET Make(len) ==
            IF len.panic \/ len.val # Len(px) THEN BuildPanic
            ELSE [panic |-> FALSE, raster |-> MkRaster(f, w, h, px)]
    IN  Make(U32Op(w * h, bld))

\* The buffer read as len pixels of Channels(f) elements each.
Reinterpret(f, len, buf) ==
    [i \in 1..len |-> [j \in 1..Channels(f) |-> buf[(i - 1) * Channels(f) + j]]]

\* RasterBuilder::with_u8_buffer: assert_eq!(len * size_of::<P>(),
\* capacity); the bytes are then read as len pixels.
with_u8_buffer(f, w, h, buf, bld) ==
    LET Make(len) ==
            IF len.panic \/ len.val * SizeOf(f) # Len(buf) THEN BuildPanic
            ELSE [panic |-> FALSE,
                  raster |-> MkRaster(f, w, h, Reinterpret(f, len.val, buf))]
    IN  Make(U32Op(w * h, bld))

\* RasterBuilder::with_u16_buffer: assert_eq!(len * size_of::<P>(),
\* capacity * size_of::<u16>()); the words are then read as len pixels.
with_u16_buffer(f, w, h, buf, bld) ==
    LET Make(len) ==
            IF len.panic \/ len.val * SizeOf(f) # Len(buf) * 2 THEN BuildPanic
            ELSE [panic |-> FALSE,
                  raster |-> MkRaster(f, w, h, Reinterpret(f, len.val, buf))]
    IN  Make(U32Op(w * h, bld))

\* RasterBuilder::with_raster: a cleared raster of the source's size, then
\* set_region over the source's region from the source's region_iter.
with_raster(f, src, bld) ==
    LET Copy(r) ==
            IF r.panic THEN BuildPanic
            ELSE set_region(r.raster, region(src),
                            IterSource(src, region(src)), bld)
        Result(done) == [panic |-> done.panic, raster |-> done.raster]
    IN  Result(Copy(with_clear(f, src.width, src.height, bld)))

(***************************************************************************)
(* Region algebra: two regions are drawn, each of the two intersections is *)
(* then computed once.                                                     *)
(***************************************************************************)
\* The result of a call not made yet.
NoResult == [called |-> FALSE, panic |-> FALSE, region |-> NoRegion]

Called(res) == [called |-> TRUE, panic |-> res.panic, region |-> res.region]

NoCall == [op |-> "none", panic |-> FALSE]

NoIterState == [live |-> FALSE, reg |-> NoRegion, it |-> NoIter]

InitRegion ==
    /\ build \in Builds
    /\ regA \in Regions /\ regB \in Regions
    /\ resAB = NoResult /\ resBA = NoResult
    /\ raster = NoRaster /\ status = "none" /\ last = NoCall /\ ops = 0
    /\ iter = NoIterState /\ trace = <<>>

\* regA.intersection(regB)
IntersectAB ==
    /\ ~resAB.called
    /\ resAB' = Called(intersection(regA, regB, build))
    /\ UNCHANGED <<build, regA, regB, resBA, raster, status, last, ops,
                   iterVars>>

\* regB.intersection(regA)
IntersectBA ==
    /\ ~resBA.called
    /\ resBA' = Called(intersection(regB, regA, build))
    /\ UNCHANGED <<build, regA, regB, resAB, raster, status, last, ops,
                   iterVars>>

NextRegion == IntersectAB \/ IntersectBA

SpecRegion == InitRegion /\ [][NextRegion]_vars

(***************************************************************************)
(* The sides of a region: one region is drawn, right() and bottom() are    *)
(* called on it in turn; `last` keeps the call and the value it returned.  *)
(***************************************************************************)
\* Origins and extents whose sums fall below, on and above i32::MAX.
SideXs == {I32Min, -1, 0, 1, I32Max}
SideYs == {I32Min, 0, 1, I32Max}
SideWs == {0, 1, I32Max - 1, I32Max, I32Max + 1, U32Max}
SideHs == {0, 1, I32Max, U32Max}
SideRegions == {RegionNew(x, y, w, h) : x \in SideXs, y \in SideYs,
                                        w \in SideWs, h \in SideHs}

InitSides ==
    /\ build \in Builds
    /\ regA \in SideRegions /\ regB = NoRegion
    /\ resAB = NoResult /\ resBA = NoResult
    /\ raster = NoRaster /\ status = "none" /\ last = NoCall /\ ops = 0
    /\ iter = NoIterState /\ trace = <<>>

\* regA.right()
Right ==
    /\ last.op # "right"
    /\ last' = [op |-> "right", panic |-> FALSE, val |-> right(regA)]
    /\ UNCHANGED <<build, regionVars, raster, status, ops, iterVars>>

\* regA.bottom()
Bottom ==
    /\ last.op # "bottom"
    /\ last' = [op |-> "bottom", panic |-> FALSE, val |-> bottom(regA)]
    /\ UNCHANGED <<build, regionVars, raster, status, ops, iterVars>>

NextSides == Right \/ Bottom

SpecSides == InitSides /\ [][NextSides]_vars

(***************************************************************************)
(* Building a raster.  A builder call either returns the raster or panics. *)
(***************************************************************************)
\* Pixel data i -> (i, .., i): every pixel differs from every other.
Ramp(f, n) == [i \in 1..n |-> [j \in 1..Channels(f) |-> i]]

\* A buffer of n bytes or words: 1, 2, .., n.
RampBuffer(n) == [i \in 1..n |-> i]

Nat0(S) == {n \in S : n >= 0}

\* Element counts offered to with_pixels for a width and height: the
\* product, the product as u32 computes it, and one off.
PixelLens(w, h) == Nat0({w * h, (w * h) % U32Mod, w * h + 1, w * h - 1})

\* Byte counts offered to with_u8_buffer.
ByteLens(f, w, h) ==
    Nat0({w * h * SizeOf(f), ((w * h) % U32Mod) * SizeOf(f),
          w * h * SizeOf(f) + 1, w * h})

\* Word counts offered to with_u16_buffer.
WordLens(f, w, h) ==
    Nat0({w * h * Channels(f), ((w * h) % U32Mod) * Channels(f),
          w * h * Channels(f) + 1, w * h * SizeOf(f)})

\* Widths and heights offered to the builders: small ones and the ones
\* around the edge of i32, whose products leave u32.
BuildWidths == {0, 1, 2, 3, I32Max, I32Max + 1}
BuildHeights == {0, 1, 2, 3, I32Max}
BuildSizes == BuildWidths \X BuildHeights

Colors(f) == {[j \in 1..Channels(f) |-> 69]}

Built(call, result) ==
    /\ status = "none"
    /\ \E res \in {result} :
          /\ raster' = res.raster
          /\ status' = IF res.panic THEN "panic" ELSE "ok"
          /\ last' = [call EXCEPT !.panic = res.panic]
    /\ UNCHANGED <<build, regionVars, ops, iterVars>>

BuildCall(op, f, w, h, data) ==
    [op |-> op, fmt |-> f, width |-> w, height |-> h, data |-> data,
     panic |-> FALSE]

WithClear(sizes) ==
    \E f \in {"Gray8", "Gray16"}, wh \in sizes :
        Built(BuildCall("with_clear", f, wh[1], wh[2], <<>>),
              with_clear(f, wh[1], wh[2], build))

WithColor(sizes) ==
    \E f \in {"Gray8", "GrayAlpha8"}, wh \in sizes :
        \E clr \in Colors(f) :
            Built(BuildCall("with_color", f, wh[1], wh[2], <<clr>>),
                  with_color(f, wh[1], wh[2], clr, build))

WithPixels(sizes) ==
    \E f \in {"Gray8", "Gray16"}, wh \in sizes :
        \E n \in PixelLens(wh[1], wh[2]) :
            Built(BuildCall("with_pixels", f, wh[1], wh[2], Ramp(f, n)),
                  with_pixels(f, wh[1], wh[2], Ramp(f, n), build))

WithU8Buffer(sizes) ==
    \E f \in {"Gray8", "GrayAlpha8"}, wh \in sizes :
        \E n \in ByteLens(f, wh[1], wh[2]) :
            Built(BuildCall("with_u8_buffer", f, wh[1], wh[2], RampBuffer(n)),
                  with_u8_buffer(f, wh[1], wh[2], RampBuffer(n), build))

WithU16Buffer(sizes) ==
    \E f \in {"Gray16", "GrayAlpha16"}, wh \in sizes :
        \E n \in WordLens(f, wh[1], wh[2]) :
            Built(BuildCall("with_u16_buffer", f, wh[1], wh[2], RampBuffer(n)),
                  with_u16_buffer(f, wh[1], wh[2], RampBuffer(n), build))

\* RasterBuilder::<f>::new().with_raster(&raster): the raster is borrowed,
\* the copy is the call's result.
WithRaster ==
    /\ status = "ok" /\ last.op # "with_raster"
    /\ \E f \in {g \in {"Gray8", "Gray16", "GrayAlpha8"} :
                    Channels(g) = Channels(raster.fmt)} :
          \E res \in {with_raster(f, raster, build)} :
              /\ last' = [op |-> "with_raster", fmt |-> f, pre |-> raster,
                          panic |-> res.panic, result |-> res.raster]
              /\ status' = IF res.panic THEN "panic" ELSE "ok"
    /\ UNCHANGED <<build, regionVars, raster, ops, iterVars>>

InitRaster ==
    /\ build \in Builds
    /\ regA = NoRegion /\ regB = NoRegion
    /\ resAB = NoResult /\ resBA = NoResult
    /\ raster = NoRaster /\ status = "none" /\ last = NoCall /\ ops = 0
    /\ iter = NoIterState /\ trace = <<>>

NextBuild ==
    \/ WithClear(BuildSizes)
    \/ WithColor(BuildSizes)
    \/ WithPixels(BuildSizes)
    \/ WithU8Buffer(BuildSizes)
    \/ WithU16Buffer(BuildSizes)
    \/ WithRaster

SpecBuild == InitRaster /\ [][NextBuild]_vars

(***************************************************************************)
(* Calls on a raster: it is built, then at most MaxOps calls are made on   *)
(* it.  A call that panics ends the program.  `last` keeps the call, its   *)
(* arguments and the raster as it was before the call.                     *)
(***************************************************************************)
MaxOps == 2

\* Sizes of the rasters the calls are made on; the last one's product
\* leaves u32.
OpSizes == {<<2, 2>>, <<4, 4>>, <<3, 1>>, <<0, 2>>, <<I32Max + 1, 1>>,
            <<I32Max + 1, 2>>}

\* Coordinates offered to pixel and set_pixel.
OpCoords == {0, 1, 2, 3, U32Max}

\* Regions offered to set_region: origins left of, inside and right of the
\* raster; extents empty, small and the largest u32.
OpRegions == {RegionNew(x, y, w, h) : x \in {-1, 0, 2, 10}, y \in {-1, 0, 2},
                                      w \in {0, 1, 10, U32Max},
                                      h \in {0, 10, U32Max}}

\* Source pixels offered to set_pixel and set_region, of format Gray8:
\* 101, 102, ...
SourcePixels(n) == [i \in 1..n |-> <<100 + i>>]
SourceLens == {1, 3, 10}

CanCall == status = "ok" /\ ops < MaxOps

\* raster.set_pixel(x, y, p)
SetPixel ==
    /\ CanCall
    /\ \E x \in OpCoords, y \in OpCoords :
          \E res \in {set_pixel(raster, x, y, "Gray8", <<35>>, build)} :
              /\ raster' = res.raster
              /\ status' = IF res.panic THEN "panic" ELSE "ok"
              /\ last' = [op |-> "set_pixel", pre |-> raster, x |-> x,
                          y |-> y, sfmt |-> "Gray8", p |-> <<35>>,
                          panic |-> res.panic]
    /\ ops' = ops + 1
    /\ UNCHANGED <<build, regionVars, iterVars>>

\* raster.pixel(x, y)
Pixel ==
    /\ CanCall
    /\ \E x \in OpCoords, y \in OpCoords :
          \E res \in {pixel(raster, x, y, build)} :
              /\ status' = IF res.panic THEN "panic" ELSE "ok"
              /\ last' = [op |-> "pixel", pre |-> raster, x |-> x, y |-> y,
                          val |-> res.val, index |-> res.index,
                          panic |-> res.panic]
    /\ ops' = ops + 1
    /\ UNCHANGED <<build, regionVars, raster, iterVars>>

\* raster.clear()
Clear ==
    /\ CanCall
    /\ raster' = clear(raster)
    /\ last' = [op |-> "clear", pre |-> raster, panic |-> FALSE]
    /\ ops' = ops + 1
    /\ UNCHANGED <<build, regionVars, status, iterVars>>

\* raster.set_region(reg, source)
SetRegion ==
    /\ CanCall
    /\ \E reg \in OpRegions, n \in SourceLens :
          \E res \in {set_region(raster, reg,
                                 SeqSource("Gray8", SourcePixels(n)), build)} :
              /\ raster' = res.raster
              /\ status' = IF res.panic THEN "panic" ELSE "ok"
              /\ last' = [op |-> "set_region", pre |-> raster, reg |-> reg,
                          sfmt |-> "Gray8", items |-> SourcePixels(n),
                          consumed |-> res.src.pos, panic |-> res.panic]
    /\ ops' = ops + 1
    /\ UNCHANGED <<build, regionVars, iterVars>>

Next ==
    \/ WithClear(OpSizes)
    \/ WithPixels(OpSizes)
    \/ SetPixel
    \/ Pixel
    \/ Clear
    \/ SetRegion

Spec == InitRaster /\ [][Next]_vars

(***************************************************************************)
(* Access to single pixels and rows: a raster is built cleared, then at    *)
(* most MaxAccess calls of pixel, set_pixel, as_slice_row and              *)
(* as_slice_row_mut are made on it.  `trace` keeps the arguments of the    *)
(* set_pixel calls that returned.                                          *)
(***************************************************************************)
MaxAccess == 3

\* Sizes of the rasters accessed: square, wider than high, without columns,
\* and one whose product leaves u32.
AccessSizes == {<<2, 2>>, <<3, 2>>, <<0, 2>>, <<I32Max + 1, 2>>}

\* Coordinates: inside the rasters, just outside, and large enough for
\* y * width to leave u32.
AccessCoords == {0, 1, 2, I32Max + 1, U32Max}

\* Values written by set_pixel, of format Gray8.
AccessPixels == {<<35>>, <<120>>}

CanAccess == status = "ok" /\ ops < MaxAccess

\* raster.set_pixel(x, y, p)
AccessSetPixel ==
    /\ CanAccess
    /\ \E x \in AccessCoords, y \in AccessCoords, p \in AccessPixels :
          \E res \in {set_pixel(raster, x, y, "Gray8", p, build)} :
              /\ raster' = res.raster
              /\ status' = IF res.panic THEN "panic" ELSE "ok"
              /\ last' = [op |-> "set_pixel", pre |-> raster, x |-> x,
                          y |-> y, sfmt |-> "Gray8", p |-> p,
                          panic |-> res.panic]
              /\ trace' = IF res.panic THEN trace
                          ELSE Append(trace, [x |-> x, y |-> y, p |-> p])
    /\ ops' = ops + 1
    /\ UNCHANGED <<build, regionVars, iter>>

\* raster.pixel(x, y)
AccessPixel ==
    /\ CanAccess
    /\ \E x \in AccessCoords, y \in AccessCoords :
          \E res \in {pixel(raster, x, y, build)} :
              /\ status' = IF res.panic THEN "panic" ELSE "ok"
              /\ last' = [op |-> "pixel", pre |-> raster, x |-> x, y |-> y,
                          val |-> res.val, index |-> res.index,
                          panic |-> res.panic]
    /\ ops' = ops + 1
    /\ UNCHANGED <<build, regionVars, raster, iterVars>>

\* A row view was asked for: the call and the bounds [s, t) it returned.
RowCall(op, y, res) ==
    /\ status' = IF res.panic THEN "panic" ELSE "ok"
    /\ last' = [op |-> op, pre |-> raster, y |-> y, s |-> res.s,
                t |-> res.t, panic |-> res.panic]
    /\ ops' = ops + 1
    /\ UNCHANGED <<build, regionVars, raster, iterVars>>

\* raster.as_slice_row(y)
AsSliceRow ==
    /\ CanAccess
    /\ \E y \in AccessCoords :
          \E res \in {as_slice_row(raster, y, build)} :
              RowCall("as_slice_row", y, res)

\* raster.as_slice_row_mut(y); nothing is written through the view
AsSliceRowMut ==
    /\ CanAccess
    /\ \E y \in AccessCoords :
          \E res \in {as_slice_row(raster, y, build)} :
              RowCall("as_slice_row_mut", y, res)

NextAccess ==
    \/ WithClear(AccessSizes)
    \/ AccessSetPixel
    \/ AccessPixel
    \/ AsSliceRow
    \/ AsSliceRowMut

SpecAccess == InitRaster /\ [][NextAccess]_vars

(***************************************************************************)
(* Iterating a raster: it is built, region_iter makes one iterator over a  *)
(* region, and next is called on it at most MaxNext times.  `trace` keeps  *)
(* what each call returned and the coordinates of the pixel it read.       *)
(***************************************************************************)
MaxNext == 12

\* Sizes of the rasters iterated.
IterSizes == {<<3, 3>>, <<2, 3>>, <<4, 4>>}

\* Regions offered to region_iter.
IterRegions == {RegionNew(x, y, w, h) : x \in {-1, 0, 1}, y \in {-1, 0, 1},
                                        w \in {0, 1, 2, 3, U32Max},
                                        h \in {0, 1, 2, 3}}

\* raster.region_iter(reg)
RegionIter ==
    /\ status = "ok" /\ ~iter.live
    /\ \E reg \in IterRegions :
          iter' = [live |-> TRUE, reg |-> reg, it |-> RasterIterNew(reg)]
    /\ UNCHANGED <<build, regionVars, raster, status, last, ops, trace>>

\* What a call of next returned: Some(val) read at (x, y), None, or a panic.
Returned(res) ==
    [result |-> IF res.panic THEN "panic"
                ELSE IF res.some THEN "some" ELSE "none",
     x |-> IF res.some THEN res.it.x - 1 ELSE res.it.x,
     y |-> res.it.y,
     val |-> res.val]

\* iter.next()
IterNext ==
    /\ status = "ok" /\ iter.live /\ Len(trace) < MaxNext
    /\ \E res \in {RasterIterNext(raster, iter.it, build)} :
          /\ iter' = [iter EXCEPT !.it = res.it]
          /\ trace' = Append(trace, Returned(res))
          /\ status' = IF res.panic THEN "panic" ELSE "ok"
    /\ UNCHANGED <<build, regionVars, raster, last, ops>>

NextIter ==
    \/ WithPixels(IterSizes)
    \/ RegionIter
    \/ IterNext

SpecIter == InitRaster /\ [][NextIter]_vars

(***************************************************************************)
(* Properties of Region                                                    *)
(***************************************************************************)
\* C9: a.intersection(b) does not panic and is the region with
\* x = max(a.x, b.x), y = max(a.y, b.y),
\* width = max(0, min(a.right(), b.right()) - x) and
\* height = max(0, min(a.bottom(), b.bottom()) - y).
C9_IntersectionFormula ==
    resAB.called =>
        /\ ~resAB.panic
        /\ resAB.region =
               RegionNew(Max(regA.x, regB.x), Max(regA.y, regB.y),
                         Max(0, Min(right(regA), right(regB))
                                    - Max(regA.x, regB.x)),
                         Max(0, Min(bottom(regA), bottom(regB))
                                    - Max(regA.y, regB.y)))

\* C10: intersection is commutative: a.intersection(b) and
\* b.intersection(a) panic together or are equal in all four fields.
C10_Commutative ==
    (resAB.called /\ resBA.called) =>
        /\ resAB.panic = resBA.panic
        /\ resAB.region = resBA.region

\* Both intersections of (0, 0, 5, 5) and (-1, -1, 5, 5) were taken and
\* gave their common rectangle (0, 0, 4, 4).
C10_Witness ==
    /\ resAB.called /\ resBA.called /\ ~resAB.panic
    /\ regA = RegionNew(0, 0, 5, 5) /\ regB = RegionNew(-1, -1, 5, 5)
    /\ resAB.region = RegionNew(0, 0, 4, 4)

\* C11: intersection is idempotent: for every region r, including one whose
\* right or bottom side reaches i32::MAX, r.intersection(r) does not panic
\* and equals r.
C11_Idempotent ==
    (resAB.called /\ regA = regB) =>
        /\ ~resAB.panic
        /\ resAB.region = regA

\* C13: right() is x + width and bottom() is y + height whenever the sum is
\* at most i32::MAX; the origin x (or y) is returned only when the sum is
\* above i32::MAX.
C13_SidesSaturate ==
    /\ last.op = "right" =>
           /\ ~last.panic
           /\ last.val = IF regA.x + regA.width <= I32Max
                         THEN regA.x + regA.width ELSE regA.x
    /\ last.op = "bottom" =>
           /\ ~last.panic
           /\ last.val = IF regA.y + regA.height <= I32Max
                         THEN regA.y + regA.height ELSE regA.y

(***************************************************************************)
(* Properties of the builders                                              *)
(***************************************************************************)
\* The raster keeps its buffer invariant.
SizedRight(r) == Len(r.pixels) = r.width * r.height

\* The channel values of a raster's pixels, in buffer order.
Elements(r) ==
    [k \in 1..(Len(r.pixels) * Channels(r.fmt)) |->
        r.pixels[((k - 1) \div Channels(r.fmt)) + 1]
                [((k - 1) % Channels(r.fmt)) + 1]]

\* C8: with_pixels, with_u8_buffer and with_u16_buffer panic and produce no
\* raster when the size of the supplied sequence differs from width * height
\* pixels, and return a raster of the given width and height that holds the
\* supplied data unchanged when it matches.
C8_LengthChecked ==
    last.op \in {"with_pixels", "with_u8_buffer", "with_u16_buffer"} =>
        LET want == last.width * last.height *
                        (IF last.op = "with_pixels" THEN 1
                         ELSE SizeOf(last.fmt))
            got == Len(last.data) * (IF last.op = "with_u16_buffer" THEN 2
                                     ELSE 1)
        IN  IF got # want
            THEN last.panic /\ status = "panic"
            ELSE /\ ~last.panic /\ status = "ok"
                 /\ raster.width = last.width /\ raster.height = last.height
                 /\ IF last.op = "with_pixels"
                    THEN raster.pixels = last.data
                    ELSE Elements(raster) = last.data

\* C7: with_raster of a raster that keeps its buffer invariant returns a
\* raster of the same width and height whose every pixel is the conversion
\* of the source's pixel at the same place, and leaves the source unchanged.
C7_WithRasterConverts ==
    (last.op = "with_raster" /\ SizedRight(last.pre)) =>
        /\ ~last.panic
        /\ last.result.width = last.pre.width
        /\ last.result.height = last.pre.height
        /\ Len(last.result.pixels) = Len(last.pre.pixels)
        /\ \A i \in 1..Len(last.pre.pixels) :
               last.result.pixels[i] =
                   Convert(last.pre.fmt, last.fmt, last.pre.pixels[i])
        /\ raster = last.pre

\* C1: a raster that was built holds exactly width * height pixels.
C1_BufferLength == status = "ok" => SizedRight(raster)

(***************************************************************************)
(* Properties of set_region                                                *)
(***************************************************************************)
\* The destination rectangle of a region with a non-negative origin:
\* columns [xa, xb) and rows [ya, yb), clipped to the raster.
DestCols(r, reg) == Max(0, Min(r.width, reg.x + reg.width) - reg.x)
DestRows(r, reg) == Max(0, Min(r.height, reg.y + reg.height) - reg.y)
DestArea(r, reg) == DestCols(r, reg) * DestRows(r, reg)

\* The buffer index (from 1) of the k-th cell of that rectangle, row-major.
DestIndex(r, reg, k) ==
    (reg.y + (k \div DestCols(r, reg))) * r.width
        + reg.x + (k % DestCols(r, reg)) + 1

\* C2: a set_region that returns, on a region with non-negative origin,
\* leaves the k-th cell of the clipped rectangle holding the conversion of
\* the k-th source pixel for every k below the source's length and the
\* rectangle's area, every other pixel unchanged, and has consumed no more
\* source pixels than the area.
C2_SetRegionPost ==
    (/\ last.op = "set_region" /\ ~last.panic /\ SizedRight(last.pre)
     /\ last.reg.x >= 0 /\ last.reg.y >= 0) =>
        LET pre == last.pre
            area == DestArea(pre, last.reg)
            n == Min(Len(last.items), area)
            written == {DestIndex(pre, last.reg, k) : k \in 0..(n - 1)}
        IN  /\ raster.width = pre.width /\ raster.height = pre.height
            /\ Len(raster.pixels) = Len(pre.pixels)
            /\ \A k \in 0..(n - 1) :
                   raster.pixels[DestIndex(pre, last.reg, k)] =
                       Convert(last.sfmt, pre.fmt, last.items[k + 1])
            /\ \A i \in 1..Len(pre.pixels) :
                   i \notin written => raster.pixels[i] = pre.pixels[i]
            /\ last.consumed <= area

\* The region has a negative origin, no extent, or starts past the raster.
Degenerate(r, reg) ==
    \/ reg.x < 0 \/ reg.y < 0
    \/ reg.width = 0 \/ reg.height = 0
    \/ reg.x >= r.width \/ reg.y >= r.height

\* C3: set_region never panics, whatever the region; and on a region with
\* a negative origin, no extent, or wholly outside the raster, it changes no
\* pixel and consumes no source pixel.
C3_SetRegionNoFault ==
    (last.op = "set_region" /\ SizedRight(last.pre)) =>
        /\ ~last.panic
        /\ Degenerate(last.pre, last.reg) =>
               (raster = last.pre /\ last.consumed = 0)

(***************************************************************************)
(* Properties of RasterIter                                                *)
(***************************************************************************)
\* The region has an extent and lies inside the raster.
Inside(r, reg) ==
    /\ reg.x >= 0 /\ reg.y >= 0 /\ reg.width >= 1 /\ reg.height >= 1
    /\ reg.x + reg.width <= r.width /\ reg.y + reg.height <= r.height

\* C4: over a region inside the raster, the k-th call of next (k from 0)
\* returns the pixel at column x + (k mod width), row y + (k div width) for
\* k < width * height, and every later call returns None.
C4_RowMajorThenEnd ==
    (iter.live /\ Inside(raster, iter.reg)) =>
        \A i \in 1..Len(trace) :
            IF i <= iter.reg.width * iter.reg.height
            THEN /\ trace[i].result = "some"
                 /\ trace[i].x = iter.reg.x + ((i - 1) % iter.reg.width)
                 /\ trace[i].y = iter.reg.y + ((i - 1) \div iter.reg.width)
                 /\ trace[i].val =
                        raster.pixels[trace[i].y * raster.width
                                          + trace[i].x + 1]
            ELSE trace[i].result = "none"

\* C5: over a region of width zero or height zero the first call of next
\* returns None, without reading a pixel.
C5_EmptyRegionYieldsNothing ==
    (iter.live /\ (iter.reg.width = 0 \/ iter.reg.height = 0)
               /\ Len(trace) >= 1) =>
        trace[1].result = "none"

\* C6: whatever the region, no call of next panics, and every pixel read is
\* at a coordinate inside the raster.
C6_IterNeverFaults ==
    iter.live =>
        \A i \in 1..Len(trace) :
            /\ trace[i].result # "panic"
            /\ trace[i].result = "some" =>
                   (trace[i].x < raster.width /\ trace[i].y < raster.height)

(***************************************************************************)
(* Properties of pixel and row access                                      *)
(***************************************************************************)
\* The last call was pixel or set_pixel.
OnPixel == last.op \in {"pixel", "set_pixel"}

\* The last call was as_slice_row or as_slice_row_mut.
OnRow == last.op \in {"as_slice_row", "as_slice_row_mut"}

\* C12: pixel, set_pixel, as_slice_row and as_slice_row_mut panic whenever
\* y >= height, and pixel and set_pixel also whenever x >= width; such a
\* call returns no pixel or row and leaves the raster as it was.
C12_OutOfRangeFaults ==
    /\ ((OnPixel \/ OnRow) /\ last.y >= last.pre.height) =>
           (last.panic /\ raster = last.pre)
    /\ (OnPixel /\ last.x >= last.pre.width) =>
           (last.panic /\ raster = last.pre)

\* The set_pixel call c is inside raster r.
InBounds(r, c) == c.x < r.width /\ c.y < r.height

\* The value the calls of log left at buffer index i of a cleared raster r:
\* that of the last call writing to i, the default if there is none.
Written(r, log, i) ==
    LET hits == {k \in DOMAIN log : log[k].y * r.width + log[k].x = i}
    IN  IF hits = {} THEN Default(r.fmt)
        ELSE Convert("Gray8", r.fmt,
                     log[CHOOSE k \in hits : \A j \in hits : j <= k].p)

\* C14: an in-bounds set_pixel(x, y, v) does not panic, sets the buffer
\* element at index y * width + x to the conversion of v and changes no
\* other element nor the dimensions; a following pixel(x, y) returns that
\* value; after in-bounds set_pixel calls on a cleared raster the buffer is
\* the default except at the written indices, which hold the last value
\* written there.
C14_SetPixelWritesOne ==
    /\ (last.op = "set_pixel" /\ InBounds(last.pre, last)) =>
           /\ ~last.panic
           /\ raster.width = last.pre.width
           /\ raster.height = last.pre.height
           /\ Len(raster.pixels) = Len(last.pre.pixels)
           /\ last.y * last.pre.width + last.x + 1 \in DOMAIN raster.pixels
           /\ \A i \in DOMAIN raster.pixels :
                  raster.pixels[i] =
                      IF i = last.y * last.pre.width + last.x + 1
                      THEN Convert(last.sfmt, raster.fmt, last.p)
                      ELSE last.pre.pixels[i]
    /\ (/\ last.op = "pixel" /\ trace # <<>>
        /\ InBounds(raster, trace[Len(trace)])
        /\ last.x = trace[Len(trace)].x /\ last.y = trace[Len(trace)].y) =>
           /\ ~last.panic
           /\ last.val = Convert("Gray8", raster.fmt, trace[Len(trace)].p)
    /\ (\A k \in DOMAIN trace : InBounds(raster, trace[k])) =>
           \A i \in DOMAIN raster.pixels :
               raster.pixels[i] = Written(raster, trace, i - 1)

==========================================================================
